---- MODULE Spec2Model ----
(***************************************************************************)
(* A model of the batch analysis pipeline: the coordinator that runs the   *)
(* four stage scripts in order, the processor (load, validate, clean,      *)
(* save), and the statistician (descriptive statistics, correlations,      *)
(* patterns, aggregation).                                                 *)
(*                                                                         *)
(* Numbers.  The data are small integers.  Quantiles (linear               *)
(* interpolation) of integers are multiples of 1/4 and the IQR bounds      *)
(* multiples of 1/8, so every quantile and bound is held as an integer     *)
(* number of eighths.  Percentages and formatted bounds are held in        *)
(* hundredths.  A Pearson coefficient r = c / sqrt(d) is held as the pair  *)
(* (c, d); |r| > p/q is then q*q*c*c > p*p*d, exactly.                     *)
(***************************************************************************)
EXTENDS Integers, Sequences, FiniteSets, TLC

VARIABLES
    \* coordinator.py
    pc,             \* position of coordinator.main
    csv,            \* the input table (data/sample.csv as read_csv parses it)
    started,        \* the stages run_command has started, in order
    succeeded,      \* the stages whose run_command returned True
    fs,             \* the run's output directory: file name -> content or NoFile
    exit_code,      \* the coordinator's exit code, NoExit while running
    completion,     \* TRUE once the completion message is printed
    \* statistician.py run on its own
    spc,            \* position of statistician.main
    processed,      \* the processed-data JSON it is given
    df,             \* the DataFrame built from it
    metadata,       \* the metadata read from it
    stats,          \* compute_descriptive_stats' result
    correlations,   \* compute_correlations' result
    patterns,       \* identify_patterns' result
    analysis_results, \* save_statistical_analysis' result
    \* compute_correlations on a given matrix
    corr_cols,      \* numeric_cols
    corr_matrix,    \* df[numeric_cols].corr()
    corr_out,       \* the function's result
    \* visualizer.py and report_writer.py run on the statistician's result
    rpc,            \* position of the visualizer / report_writer.main
    viz_catalog,    \* the visualization catalog report_writer loads ({} if none)
    scatter,        \* the correlations create_scatter_plots plots
    service,        \* how the attempt at the text-generation service went
    report_content, \* main's report_content
    report_file     \* the report file written, NoFile when none

vars == <<pc, csv, started, succeeded, fs, exit_code, completion,
          spc, processed, df, metadata, stats, correlations, patterns,
          analysis_results, corr_cols, corr_matrix, corr_out,
          rpc, viz_catalog, scatter, service, report_content, report_file>>

pipeVars == <<pc, csv, started, succeeded, fs, exit_code, completion>>
statVars == <<spc, processed, df, metadata, stats, correlations, patterns,
              analysis_results>>
corrVars == <<corr_cols, corr_matrix, corr_out>>
repVars == <<rpc, viz_catalog, scatter, service, report_content, report_file>>

----------------------------------------------------------------------------
(* Bounds of the model *)

\* a table drawn as input has at most MaxCells cells (rows * columns)
MaxCells == 6

\* the correlation matrices drawn hold the values i / GridSteps
GridSteps == 10

\* the column names a drawn table may have, in declaration order
Cols == <<"c1", "c2", "c3">>

\* the numbers and the strings a drawn cell may hold
NumVals == {0, 1, 2}
StrVals == {"A", "B"}

----------------------------------------------------------------------------
(* Cells: a number, a string, a boolean, or null (NaN / None) *)

Null == [k |-> "null", n |-> 0, s |-> ""]
Num(v) == [k |-> "num", n |-> v, s |-> ""]
Str(t) == [k |-> "str", n |-> 0, s |-> t]
Bool(b) == [k |-> "bool", n |-> IF b THEN 1 ELSE 0, s |-> ""]

IsNull(c) == c.k = "null"

SeqSum(s) ==
    LET RECURSIVE go(_)
        go(i) == IF i = 0 THEN 0 ELSE s[i] + go(i - 1)
    IN go(Len(s))

----------------------------------------------------------------------------
(* DataFrames.  columns: the column names in order; n: the number of rows; *)
(* col[c]: the column's cells, row by row; dtype[c]: "number", "bool" or    *)
(* "object".                                                               *)

\* pandas' dtype inference for a column of parsed cells: a column holding a
\* string is object; a column of True / False only is bool, and object when
\* it also holds a null or a number; a column of numbers and nulls (an
\* all-null one too) is float64/int64.  A frame read from a CSV with no data
\* rows has object columns only.
InferDType(cells) ==
    IF Len(cells) = 0 THEN "object"
    ELSE IF \E i \in 1..Len(cells) : cells[i].k = "str" THEN "object"
    ELSE IF \E i \in 1..Len(cells) : cells[i].k = "bool"
    THEN IF \A i \in 1..Len(cells) : cells[i].k = "bool" THEN "bool"
         ELSE "object"
    ELSE "number"

MakeFrame(columns, n, col) ==
    [columns |-> columns, n |-> n, col |-> col,
     dtype |-> [c \in DOMAIN col |-> InferDType(col[c])]]

\* the frame without its columns (pd.DataFrame([]))
EmptyFrame == MakeFrame(<<>>, 0, <<>>)

ColSet(columns) == {columns[i] : i \in 1..Len(columns)}

NumCells == {Num(v) : v \in NumVals} \cup {Null}
StrCells == {Str(t) : t \in StrVals} \cup {Null}

\* a drawn column holds numbers and nulls, or strings and nulls: read_csv
\* parses a column mixing numbers and text as text
ColumnVectors(n) == [1..n -> NumCells] \cup [1..n -> StrCells]

TablesOf(k, n) ==
    {MakeFrame(SubSeq(Cols, 1, k), n, f) :
        f \in [ColSet(SubSeq(Cols, 1, k)) -> ColumnVectors(n)]}

\* the shapes (columns, rows) of the tables of at most cells cells
Shapes(cells) ==
    {sh \in (1..Len(Cols)) \X (0..cells) : sh[1] * sh[2] <= cells}

\* the tables of the specification's scenarios, drawn beside the tables of
\* every shape
OneColumn(name, cells) == MakeFrame(<<name>>, Len(cells), [c \in {name} |-> cells])

ScenarioRegion == OneColumn("region", <<Str("A"), Str("A"), Str("A"), Str("B")>>)

ScenarioOutlier ==
    OneColumn("value", <<Num(1), Num(2), Num(3), Num(4), Num(1000)>>)

ScenarioCategories ==
    OneColumn("category",
        <<Str("A"), Str("A"), Str("A"), Str("B"), Str("B"),
          Str("C"), Str("D"), Str("E"), Str("F")>>)

\* three numeric columns with correlations 0.6 (x, y), 0.8 (x, z), 0.8 (y, z)
ScenarioCorrelated ==
    MakeFrame(<<"x", "y", "z">>, 4,
        [c \in {"x", "y", "z"} |->
            CASE c = "x" -> <<Num(0), Num(1), Num(2), Num(3)>>
              [] c = "y" -> <<Num(1), Num(0), Num(3), Num(2)>>
              [] c = "z" -> <<Num(0), Num(1), Num(3), Num(2)>>])

\* two numeric columns, a row without any value, the outlier 8 in the last
ScenarioOutlierRows ==
    MakeFrame(<<"value", "other">>, 6,
        [c \in {"value", "other"} |->
            CASE c = "value" -> <<Num(1), Num(2), Null, Num(3), Num(4), Num(8)>>
              [] c = "other" -> <<Num(1), Num(0), Null, Null, Num(1), Num(0)>>])

ScenarioTables ==
    {ScenarioRegion, ScenarioOutlier, ScenarioCategories, ScenarioCorrelated,
     ScenarioOutlierRows}

\* two numeric columns and a column of True / False
ScenarioFlags ==
    MakeFrame(<<"a", "b", "flag">>, 2,
        [c \in {"a", "b", "flag"} |->
            CASE c = "a" -> <<Num(1), Num(2)>>
              [] c = "b" -> <<Num(2), Num(0)>>
              [] c = "flag" -> <<Bool(TRUE), Bool(FALSE)>>])

\* the input tables drawn beside the tables of every shape
ScenarioInputs == ScenarioTables \cup {ScenarioFlags}

\* df.select_dtypes(include=[t]).columns
SelectDTypes(frame, t) ==
    SelectSeq(frame.columns, LAMBDA c : frame.dtype[c] = t)

\* the rows of frame kept by keep(i), in order; dtypes are kept
FilterRows(frame, keep(_)) ==
    LET idx == SelectSeq([i \in 1..frame.n |-> i], keep)
    IN [columns |-> frame.columns,
        n |-> Len(idx),
        col |-> [c \in DOMAIN frame.col |->
                    [j \in 1..Len(idx) |-> frame.col[c][idx[j]]]],
        dtype |-> frame.dtype]

\* df.to_dict('records'): one mapping column -> cell per row.  keys is the
\* key order the mappings carry (the column order); no row, no keys.
ToRecords(frame) ==
    [keys |-> IF frame.n = 0 THEN <<>> ELSE frame.columns,
     rows |-> [i \in 1..frame.n |->
                 [c \in ColSet(frame.columns) |-> frame.col[c][i]]]]

\* pd.DataFrame(records): the columns are the records' keys; an empty list
\* gives a frame with no column
DataFrame(records) ==
    IF Len(records.rows) = 0 THEN EmptyFrame
    ELSE MakeFrame(records.keys, Len(records.rows),
                   [c \in ColSet(records.keys) |->
                       [i \in 1..Len(records.rows) |-> records.rows[i][c]]])

----------------------------------------------------------------------------
(* processor.py *)

\* the smallest number of numeric columns load_and_validate_data accepts
MinNumericCols == 2

\* the outcome of a call: not made yet, raised, or returned a value
Pending == [raised |-> FALSE, pending |-> TRUE]
Raised(e) == [raised |-> TRUE, pending |-> FALSE, error |-> e]
Returned(v) == [raised |-> FALSE, pending |-> FALSE, value |-> v]
HasReturned(r) == ~r.raised /\ ~r.pending

LoadAndValidateDataLax(table) ==
    IF Len(SelectDTypes(table, "number")) < MinNumericCols - 1
    THEN Raised("ValueError")
    ELSE Returned(table)

\* load_and_validate_data (the coordinator always hands it an existing file)
LoadAndValidateData(table) ==
    IF Len(SelectDTypes(table, "number")) < MinNumericCols
    THEN Raised("ValueError")
    ELSE Returned(table)

CleanDataDropAny(frame) ==
    FilterRows(frame,
        LAMBDA i : \A c \in ColSet(frame.columns) : ~IsNull(frame.col[c][i]))

\* clean_data: dropna(how='all'); the outliers are only counted and printed
CleanData(frame) ==
    FilterRows(frame,
        LAMBDA i : \E c \in ColSet(frame.columns) : ~IsNull(frame.col[c][i]))

\* save_processed_data: the JSON document written to output_path
SaveProcessedData(frame) ==
    [metadata |-> [rows |-> frame.n,
                   columns |-> Len(frame.columns),
                   numeric_columns |-> SelectDTypes(frame, "number"),
                   categorical_columns |-> SelectDTypes(frame, "object")],
     data |-> ToRecords(frame)]

\* processor.main: exit code and the file written (NoFile when none)
NoFile == [absent |-> TRUE]

ProcessorMain(table) ==
    LET loaded == LoadAndValidateData(table)
    IN IF loaded.raised
       THEN [rc |-> 1, out |-> NoFile]
       ELSE [rc |-> 0, out |-> SaveProcessedData(CleanData(loaded.value))]

----------------------------------------------------------------------------
(* Floating-point results: a number or not-a-number *)

NaN == [nan |-> TRUE, v |-> 0]
Fl(x) == [nan |-> FALSE, v |-> x]

\* a < b on floats: false when either is NaN
FLt(a, b) == ~a.nan /\ ~b.nan /\ a.v < b.v

\* the non-null numbers of a column, in row order
NonNull(cells) ==
    LET kept == SelectSeq(cells, LAMBDA c : ~IsNull(c))
    IN [i \in 1..Len(kept) |-> kept[i].n]

RECURSIVE Insert(_, _)
Insert(x, s) ==
    IF s = <<>> THEN <<x>>
    ELSE IF x <= Head(s) THEN <<x>> \o s
    ELSE <<Head(s)>> \o Insert(x, Tail(s))

RECURSIVE Sorted(_)
Sorted(s) == IF s = <<>> THEN <<>> ELSE Insert(Head(s), Sorted(Tail(s)))

\* Series.quantile(q4 / 4), linear interpolation between order statistics,
\* nulls skipped; in eighths.  NaN for a column without a value.
Quantile(cells, q4) ==
    LET xs == Sorted(NonNull(cells))
        n == Len(xs)
        h4 == (n - 1) * q4
        k == h4 \div 4
        r == h4 % 4
    IN IF n = 0 THEN NaN
       ELSE IF r = 0 THEN Fl(8 * xs[k + 1])
       ELSE Fl(8 * xs[k + 1] + 2 * r * (xs[k + 2] - xs[k + 1]))

\* num / den rounded half-even to an integer (den > 0)
RoundHalfEven(num, den) ==
    LET fl == num \div den
        rem2 == 2 * (num % den)
    IN IF rem2 < den THEN fl
       ELSE IF rem2 > den THEN fl + 1
       ELSE IF fl % 2 = 0 THEN fl ELSE fl + 1

\* round(count / total * 100, 2), in hundredths of a percent
Percentage(count, total) == RoundHalfEven(count * 10000, total)

\* f"{x:.2f}" of a float held in eighths: hundredths, or NaN ("nan")
Format2(x) == IF x.nan THEN NaN ELSE Fl(RoundHalfEven(x.v * 100, 8))

----------------------------------------------------------------------------
(* statistician.py *)

\* load_processed_data: (df, metadata)
LoadProcessedData(doc) == [df |-> DataFrame(doc.data), metadata |-> doc.metadata]

\* df[col] raises KeyError for a column the frame does not have
HasColumns(frame, columns) == ColSet(columns) \subseteq ColSet(frame.columns)

\* compute_descriptive_stats' entry were a null counted as the value 0
DescribeColumnNullsAsZero(frame, c) ==
    LET cells == [i \in 1..Len(frame.col[c]) |->
                     IF IsNull(frame.col[c][i]) THEN Num(0)
                     ELSE frame.col[c][i]]
        xs == NonNull(cells)
        n == Len(xs)
        sum == SeqSum(xs)
        sumsq == SeqSum([i \in 1..n |-> xs[i] * xs[i]])
    IN [column |-> c,
        count |-> n,
        mean |-> IF n = 0 THEN [nan |-> TRUE, num |-> 0, den |-> 1]
                 ELSE [nan |-> FALSE, num |-> sum, den |-> n],
        median |-> Quantile(cells, 2),
        std |-> IF n < 2 THEN [nan |-> TRUE, num |-> 0, den |-> 1]
                ELSE [nan |-> FALSE, num |-> n * sumsq - sum * sum,
                      den |-> n * (n - 1)],
        min |-> Quantile(cells, 0),
        max |-> Quantile(cells, 4),
        q25 |-> Quantile(cells, 1),
        q75 |-> Quantile(cells, 3)]

\* the entry compute_descriptive_stats stores under col.  mean is the
\* fraction num/den; std holds the sample variance (std squared) as a
\* fraction; the quantiles, min and max are in eighths.
DescribeColumn(frame, c) ==
    LET xs == NonNull(frame.col[c])
        n == Len(xs)
        sum == SeqSum(xs)
        sumsq == SeqSum([i \in 1..n |-> xs[i] * xs[i]])
    IN [column |-> c,
        count |-> n,
        mean |-> IF n = 0 THEN [nan |-> TRUE, num |-> 0, den |-> 1]
                 ELSE [nan |-> FALSE, num |-> sum, den |-> n],
        median |-> Quantile(frame.col[c], 2),
        std |-> IF n < 2 THEN [nan |-> TRUE, num |-> 0, den |-> 1]
                ELSE [nan |-> FALSE, num |-> n * sumsq - sum * sum,
                      den |-> n * (n - 1)],
        min |-> Quantile(frame.col[c], 0),
        max |-> Quantile(frame.col[c], 4),
        q25 |-> Quantile(frame.col[c], 1),
        q75 |-> Quantile(frame.col[c], 3)]

\* compute_descriptive_stats: the dict, its entries in insertion order
ComputeDescriptiveStats(frame, numeric_cols) ==
    IF ~HasColumns(frame, numeric_cols) THEN Raised("KeyError")
    ELSE Returned([i \in 1..Len(numeric_cols) |->
                      DescribeColumn(frame, numeric_cols[i])])

\* Pearson's coefficient of two columns over the rows where both hold a
\* value (pairwise complete): c / sqrt(d), NaN when a variance is zero or
\* fewer than two rows are complete
Pearson(xcells, ycells) ==
    LET idx == SelectSeq([i \in 1..Len(xcells) |-> i],
                         LAMBDA i : ~IsNull(xcells[i]) /\ ~IsNull(ycells[i]))
        n == Len(idx)
        x == [j \in 1..n |-> xcells[idx[j]].n]
        y == [j \in 1..n |-> ycells[idx[j]].n]
        sx == SeqSum(x)
        sy == SeqSum(y)
        cov == n * SeqSum([j \in 1..n |-> x[j] * y[j]]) - sx * sy
        vx == n * SeqSum([j \in 1..n |-> x[j] * x[j]]) - sx * sx
        vy == n * SeqSum([j \in 1..n |-> y[j] * y[j]]) - sy * sy
    IN IF vx * vy = 0 THEN [nan |-> TRUE, c |-> 0, d |-> 1]
       ELSE [nan |-> FALSE, c |-> cov, d |-> vx * vy]

CorrUnitDiagonal(frame, numeric_cols) ==
    LET pos(c) == CHOOSE i \in 1..Len(numeric_cols) : numeric_cols[i] = c
    IN [a \in ColSet(numeric_cols) |-> [b \in ColSet(numeric_cols) |->
           IF a = b THEN [nan |-> FALSE, c |-> 1, d |-> 1]
           ELSE IF pos(a) <= pos(b)
           THEN Pearson(frame.col[a], frame.col[b])
           ELSE Pearson(frame.col[b], frame.col[a])]]

\* df[numeric_cols].corr(): pandas fills the matrix from one triangle
\* (result[i, j] = result[j, i])
Corr(frame, numeric_cols) ==
    LET pos(c) == CHOOSE i \in 1..Len(numeric_cols) : numeric_cols[i] = c
    IN [a \in ColSet(numeric_cols) |-> [b \in ColSet(numeric_cols) |->
           IF pos(a) <= pos(b)
           THEN Pearson(frame.col[a], frame.col[b])
           ELSE Pearson(frame.col[b], frame.col[a])]]

\* the thresholds of compute_correlations, in tenths
ListThreshold == 5
StrongThreshold == 7
ThresholdScale == 10

\* abs(v) > t / ThresholdScale; false for NaN
AbsAboveLax(v, t) ==
    ~v.nan /\ ThresholdScale * ThresholdScale * v.c * v.c >= t * t * v.d

AbsAbove(v, t) ==
    ~v.nan /\ ThresholdScale * ThresholdScale * v.c * v.c > t * t * v.d

StrengthInclusive(v) ==
    IF AbsAboveLax(v, StrongThreshold) THEN "strong" ELSE "moderate"

\* 'strong' if abs(corr_value) > 0.7 else 'moderate'
Strength(v) == IF AbsAbove(v, StrongThreshold) THEN "strong" ELSE "moderate"

\* the (col1, col2) the two nested loops visit, in order
LoopPairs(numeric_cols) ==
    LET n == Len(numeric_cols)
    IN [p \in 1..(n * n) |->
           <<numeric_cols[((p - 1) \div n) + 1], numeric_cols[((p - 1) % n) + 1]>>]

StrongCorrelationsWithSelf(matrix, numeric_cols) ==
    LET kept == SelectSeq(LoopPairs(numeric_cols),
                    LAMBDA p : AbsAbove(matrix[p[1]][p[2]], ListThreshold))
    IN [i \in 1..Len(kept) |->
           [variable1 |-> kept[i][1], variable2 |-> kept[i][2],
            correlation |-> matrix[kept[i][1]][kept[i][2]],
            strength |-> Strength(matrix[kept[i][1]][kept[i][2]])]]

\* the strong_correlations list built from the matrix
StrongCorrelations(matrix, numeric_cols) ==
    LET kept == SelectSeq(LoopPairs(numeric_cols),
                    LAMBDA p : p[1] # p[2]
                               /\ AbsAbove(matrix[p[1]][p[2]], ListThreshold))
    IN [i \in 1..Len(kept) |->
           [variable1 |-> kept[i][1], variable2 |-> kept[i][2],
            correlation |-> matrix[kept[i][1]][kept[i][2]],
            strength |-> Strength(matrix[kept[i][1]][kept[i][2]])]]

\* the empty dict {}
EmptyDict == <<>>

\* d.get(key, default) of a dict held as a record
Get(d, key, default) == IF key \in DOMAIN d THEN d[key] ELSE default

\* compute_correlations from the matrix corr() returned (lines 51-82)
CorrelationsOfMatrix(matrix, numeric_cols) ==
    IF Len(numeric_cols) < 2 THEN EmptyDict
    ELSE [matrix |-> matrix,
          strong_correlations |-> StrongCorrelations(matrix, numeric_cols)]

ComputeCorrelationsNoGuard(frame, numeric_cols) ==
    IF ~HasColumns(frame, numeric_cols) THEN Raised("KeyError")
    ELSE Returned([matrix |-> Corr(frame, numeric_cols),
                   strong_correlations |->
                       StrongCorrelations(Corr(frame, numeric_cols), numeric_cols)])

\* compute_correlations
ComputeCorrelations(frame, numeric_cols) ==
    IF Len(numeric_cols) < 2 THEN Returned(EmptyDict)
    ELSE IF ~HasColumns(frame, numeric_cols) THEN Raised("KeyError")
    ELSE Returned(CorrelationsOfMatrix(Corr(frame, numeric_cols), numeric_cols))

----------------------------------------------------------------------------
(* identify_patterns *)

\* the distinct non-null values of a categorical column
DistinctValues(cells) ==
    {cells[i].s : i \in {j \in 1..Len(cells) : ~IsNull(cells[j])}}

\* how many cells hold the value
CountOf(cells, value) ==
    Cardinality({i \in 1..Len(cells) : ~IsNull(cells[i]) /\ cells[i].s = value})

\* Series.value_counts(): the values with their counts, most frequent first.
\* pandas sorts the counts with sort_values' default, quicksort, which is not
\* a stable sort: the order of equally frequent values is not determined, so
\* every order descending in count is a possible result.
ValueCounts(cells) ==
    LET vals == DistinctValues(cells)
        m == Cardinality(vals)
        orders == {f \in [1..m -> vals] :
                     /\ \A i, j \in 1..m : i # j => f[i] # f[j]
                     /\ \A i \in 1..(m - 1) :
                            CountOf(cells, f[i]) >= CountOf(cells, f[i + 1])}
    IN {[i \in 1..m |-> [value |-> f[i], count |-> CountOf(cells, f[i])]] :
           f \in orders}

\* value_counts.head(): the first five
HeadSize == 5

Head5(vc) == SubSeq(vc, 1, IF Len(vc) < HeadSize THEN Len(vc) ELSE HeadSize)

CategoricalPatternLeast(c, cells, vc) ==
    [type |-> "categorical_distribution",
     column |-> c,
     unique_values |-> Cardinality(DistinctValues(cells)),
     most_common |-> vc[Len(vc)].value,
     most_common_count |-> vc[Len(vc)].count,
     distribution |-> Head5(vc)]

\* the pattern appended for a categorical column, given its value counts
CategoricalPattern(c, cells, vc) ==
    [type |-> "categorical_distribution",
     column |-> c,
     unique_values |-> Cardinality(DistinctValues(cells)),
     most_common |-> vc[1].value,
     most_common_count |-> vc[1].count,
     distribution |-> Head5(vc)]

\* Q1 - 1.5 * IQR and Q3 + 1.5 * IQR, in eighths (the quartiles are even
\* numbers of eighths, so is the IQR)
LowerBound(q1, q3) ==
    IF q1.nan \/ q3.nan THEN NaN ELSE Fl(q1.v - 3 * ((q3.v - q1.v) \div 2))

UpperBound(q1, q3) ==
    IF q1.nan \/ q3.nan THEN NaN ELSE Fl(q3.v + 3 * ((q3.v - q1.v) \div 2))

IsOutlierInclusive(cell, lower, upper) ==
    /\ ~IsNull(cell)
    /\ (~FLt(lower, Fl(8 * cell.n)) \/ ~FLt(Fl(8 * cell.n), upper))

\* (df[col] < lower_bound) | (df[col] > upper_bound) for one row
IsOutlier(cell, lower, upper) ==
    /\ ~IsNull(cell)
    /\ (FLt(Fl(8 * cell.n), lower) \/ FLt(upper, Fl(8 * cell.n)))

\* len(outliers)
OutliersCount(cells, lower, upper) ==
    Cardinality({i \in 1..Len(cells) : IsOutlier(cells[i], lower, upper)})

NumericPatternOfValues(frame, c) ==
    LET cells == frame.col[c]
        q1 == Quantile(cells, 1)
        q3 == Quantile(cells, 3)
        lower == LowerBound(q1, q3)
        upper == UpperBound(q1, q3)
        count == OutliersCount(cells, lower, upper)
    IN [type |-> "numeric_analysis",
        column |-> c,
        outliers_count |-> count,
        outliers_percentage |-> IF NonNull(cells) = <<>> THEN 0
                               ELSE Percentage(count, Len(NonNull(cells))),
        normal_range |-> [lo |-> Format2(lower), hi |-> Format2(upper)]]

\* the pattern appended for a numeric column (frame.n > 0)
NumericPattern(frame, c) ==
    LET cells == frame.col[c]
        q1 == Quantile(cells, 1)
        q3 == Quantile(cells, 3)
        lower == LowerBound(q1, q3)
        upper == UpperBound(q1, q3)
        count == OutliersCount(cells, lower, upper)
    IN [type |-> "numeric_analysis",
        column |-> c,
        outliers_count |-> count,
        outliers_percentage |-> Percentage(count, frame.n),
        normal_range |-> [lo |-> Format2(lower), hi |-> Format2(upper)]]

\* df[col].isnull().sum()
MissingCount(cells) == Cardinality({i \in 1..Len(cells) : IsNull(cells[i])})

MissingAnalysisSortedDesc(frame) ==
    LET withNull == SelectSeq(frame.columns,
                        LAMBDA c : MissingCount(frame.col[c]) > 0)
        RECURSIVE ins(_, _)
        ins(c, s) ==
            IF s = <<>> THEN <<c>>
            ELSE IF MissingCount(frame.col[c]) >= MissingCount(frame.col[Head(s)])
                 THEN <<c>> \o s
                 ELSE <<Head(s)>> \o ins(c, Tail(s))
        RECURSIVE srt(_)
        srt(s) == IF s = <<>> THEN <<>> ELSE ins(Head(s), srt(Tail(s)))
        sorted == srt(withNull)
    IN [i \in 1..Len(sorted) |->
           [column |-> sorted[i],
            missing_count |-> MissingCount(frame.col[sorted[i]]),
            missing_percentage |->
                Percentage(MissingCount(frame.col[sorted[i]]), frame.n)]]

\* missing_analysis: one entry per column of df holding a null, in df.columns
\* order
MissingAnalysis(frame) ==
    LET withNull == SelectSeq(frame.columns,
                        LAMBDA c : MissingCount(frame.col[c]) > 0)
    IN [i \in 1..Len(withNull) |->
           [column |-> withNull[i],
            missing_count |-> MissingCount(frame.col[withNull[i]]),
            missing_percentage |->
                Percentage(MissingCount(frame.col[withNull[i]]), frame.n)]]

\* the missing-data pattern were it appended whatever missing_analysis holds
MissingPatternsAlways(frame, meta) ==
    <<[type |-> "missing_data", columns_with_missing |-> MissingAnalysis(frame)]>>

\* the missing-data pattern, appended only when missing_analysis is not empty
MissingPatterns(frame, meta) ==
    LET missing == MissingAnalysis(frame)
    IN IF missing = <<>> THEN <<>>
       ELSE <<[type |-> "missing_data", columns_with_missing |-> missing]>>

\* the exception the categorical loop raises at column c, "" when none
CategoricalError(frame, c) ==
    IF c \notin ColSet(frame.columns) THEN "KeyError"
    ELSE IF DistinctValues(frame.col[c]) = {} THEN "IndexError"
    ELSE ""

\* the exception the numeric loop raises at column c, "" when none
NumericError(frame, c) ==
    IF c \notin ColSet(frame.columns) THEN "KeyError"
    ELSE IF \E i \in 1..frame.n : frame.col[c][i].k = "str" THEN "TypeError"
    ELSE IF frame.n = 0 THEN "ZeroDivisionError"
    ELSE ""

\* the first exception identify_patterns raises, "" when it returns
PatternsError(frame, meta) ==
    LET cat == meta.categorical_columns
        num == meta.numeric_columns
        errs == [i \in 1..Len(cat) |-> CategoricalError(frame, cat[i])]
                \o [i \in 1..Len(num) |-> NumericError(frame, num[i])]
        bad == SelectSeq(errs, LAMBDA e : e # "")
    IN IF bad = <<>> THEN "" ELSE Head(bad)

\* the lists of categorical patterns the first loop can build
RECURSIVE CategoricalPatterns(_, _)
CategoricalPatterns(frame, cat) ==
    IF cat = <<>> THEN {<<>>}
    ELSE {<<CategoricalPattern(Head(cat), frame.col[Head(cat)], vc)>> \o rest :
             vc \in ValueCounts(frame.col[Head(cat)]),
             rest \in CategoricalPatterns(frame, Tail(cat))}

\* the list of numeric patterns the second loop builds
NumericPatterns(frame, num) ==
    [i \in 1..Len(num) |-> NumericPattern(frame, num[i])]

IdentifyPatternsNumericFirst(frame, meta) ==
    IF PatternsError(frame, meta) # ""
    THEN {Raised(PatternsError(frame, meta))}
    ELSE {Returned(NumericPatterns(frame, meta.numeric_columns) \o cats
                        \o MissingPatterns(frame, meta)) :
             cats \in CategoricalPatterns(frame, meta.categorical_columns)}

\* identify_patterns: the results it can give
IdentifyPatterns(frame, meta) ==
    IF PatternsError(frame, meta) # ""
    THEN {Raised(PatternsError(frame, meta))}
    ELSE {Returned(cats \o NumericPatterns(frame, meta.numeric_columns)
                        \o MissingPatterns(frame, meta)) :
             cats \in CategoricalPatterns(frame, meta.categorical_columns)}

SaveStatisticalAnalysisSwapped(st, corr, pats) ==
    [descriptive_statistics |-> st,
     correlations |-> corr,
     patterns |-> pats,
     summary |-> [variables_analyzed |-> Len(pats),
                  strong_correlations_found |->
                      Len(Get(corr, "strong_correlations", <<>>)),
                  patterns_identified |-> Len(st)]]

\* save_statistical_analysis: the document written and returned
SaveStatisticalAnalysis(st, corr, pats) ==
    [descriptive_statistics |-> st,
     correlations |-> corr,
     patterns |-> pats,
     summary |-> [variables_analyzed |-> Len(st),
                  strong_correlations_found |->
                      Len(Get(corr, "strong_correlations", <<>>)),
                  patterns_identified |-> Len(pats)]]

----------------------------------------------------------------------------
(* statistician.main, run on a processed-data document *)

\* the metadata a document may carry for a table: a column holding a string
\* is categorical, one holding a number numeric, and a column holding only
\* nulls (or no row) is listed as either
Metadatas(table) ==
    LET cs == ColSet(table.columns)
        free == {c \in cs : \A i \in 1..table.n : IsNull(table.col[c][i])}
        fixedNum == {c \in cs \ free : \E i \in 1..table.n : table.col[c][i].k = "num"}
    IN {[rows |-> table.n,
         columns |-> Len(table.columns),
         numeric_columns |->
             SelectSeq(table.columns, LAMBDA c : c \in fixedNum \cup asNum),
         categorical_columns |->
             SelectSeq(table.columns, LAMBDA c : c \notin fixedNum \cup asNum)] :
           asNum \in SUBSET free}

\* the document a table and a metadata make
Document(table, meta) == [metadata |-> meta, data |-> ToRecords(table)]

StatIdle ==
    /\ spc = "idle" /\ processed = NoFile /\ df = EmptyFrame
    /\ metadata = NoFile /\ stats = Pending /\ correlations = Pending
    /\ patterns = Pending /\ analysis_results = NoFile

StatInit ==
    /\ spc = "load"
    /\ \E sh \in Shapes(MaxCells) :
          \E t \in TablesOf(sh[1], sh[2]) \cup ScenarioTables :
             \E m \in Metadatas(t) : processed = Document(t, m)
    /\ df = EmptyFrame
    /\ metadata = NoFile
    /\ stats = Pending
    /\ correlations = Pending
    /\ patterns = Pending
    /\ analysis_results = NoFile

StatLoad ==
    /\ spc = "load"
    /\ df' = LoadProcessedData(processed).df
    /\ metadata' = LoadProcessedData(processed).metadata
    /\ spc' = "stats"
    /\ UNCHANGED <<processed, stats, correlations, patterns, analysis_results>>
    /\ UNCHANGED <<pipeVars, corrVars, repVars>>

StatDescribe ==
    /\ spc = "stats"
    /\ stats' = ComputeDescriptiveStats(df, metadata.numeric_columns)
    /\ spc' = IF stats'.raised THEN "failed" ELSE "correlations"
    /\ UNCHANGED <<processed, df, metadata, correlations, patterns,
                   analysis_results>>
    /\ UNCHANGED <<pipeVars, corrVars, repVars>>

StatCorrelate ==
    /\ spc = "correlations"
    /\ correlations' = ComputeCorrelations(df, metadata.numeric_columns)
    /\ spc' = IF correlations'.raised THEN "failed" ELSE "patterns"
    /\ UNCHANGED <<processed, df, metadata, stats, patterns, analysis_results>>
    /\ UNCHANGED <<pipeVars, corrVars, repVars>>

StatPatterns ==
    /\ spc = "patterns"
    /\ patterns' \in IdentifyPatterns(df, metadata)
    /\ spc' = IF patterns'.raised THEN "failed" ELSE "save"
    /\ UNCHANGED <<processed, df, metadata, stats, correlations,
                   analysis_results>>
    /\ UNCHANGED <<pipeVars, corrVars, repVars>>

StatSave ==
    /\ spc = "save"
    /\ analysis_results' =
           SaveStatisticalAnalysis(stats.value, correlations.value, patterns.value)
    /\ spc' = "done"
    /\ UNCHANGED <<processed, df, metadata, stats, correlations, patterns>>
    /\ UNCHANGED <<pipeVars, corrVars, repVars>>

StatNext ==
    \/ StatLoad
    \/ StatDescribe
    \/ StatCorrelate
    \/ StatPatterns
    \/ StatSave

----------------------------------------------------------------------------
(* compute_correlations on a given correlation matrix *)

\* the values a drawn matrix holds: i / GridSteps for -GridSteps <= i <=
\* GridSteps, or NaN
NaNCorr == [nan |-> TRUE, c |-> 0, d |-> 1]
GridValue(i) == [nan |-> FALSE, c |-> i, d |-> GridSteps * GridSteps]
GridValues == {GridValue(i) : i \in (0 - GridSteps)..GridSteps} \cup {NaNCorr}

\* the column lists drawn: the sub-lists of Cols, in declaration order
ColumnLists ==
    {SelectSeq(Cols, LAMBDA c : c \in chosen) : chosen \in SUBSET ColSet(Cols)}

\* the matrices corr() can return for the columns: symmetric; a column
\* without variance (degenerate) has NaN in its whole row and column, every
\* other column 1.0 on the diagonal
Matrices(columns) ==
    LET cs == ColSet(columns)
        n == Len(columns)
        pos(c) == CHOOSE i \in 1..n : columns[i] = c
        above == {p \in (1..n) \X (1..n) : p[1] < p[2]}
    IN {[a \in cs |-> [b \in cs |->
            IF a \in degenerate \/ b \in degenerate THEN NaNCorr
            ELSE IF a = b THEN GridValue(GridSteps)
            ELSE IF pos(a) < pos(b) THEN f[<<pos(a), pos(b)>>]
            ELSE f[<<pos(b), pos(a)>>]]] :
           f \in [above -> GridValues], degenerate \in SUBSET cs}

CorrIdle == corr_cols = <<>> /\ corr_matrix = <<>> /\ corr_out = Pending

CorrInit ==
    /\ corr_cols \in ColumnLists
    /\ corr_matrix \in Matrices(corr_cols)
    /\ corr_out = Pending

CorrApply ==
    /\ corr_out = Pending
    /\ corr_out' = Returned(CorrelationsOfMatrix(corr_matrix, corr_cols))
    /\ UNCHANGED <<corr_cols, corr_matrix>>
    /\ UNCHANGED <<pipeVars, statVars, repVars>>

----------------------------------------------------------------------------
(* visualizer.py: create_scatter_plots; report_writer.py *)

\* s[:k]
Take(s, k) == SubSeq(s, 1, IF Len(s) < k THEN Len(s) ELSE k)

\* abs(a) > abs(b) for two correlation values c / sqrt(d)
AbsGreater(a, b) == a.c * a.c * b.d > b.c * b.c * a.d

\* sorted(entries, key=lambda x: abs(x['correlation']), reverse=True): a
\* stable sort, entries of equal key keep their order
RECURSIVE InsertByAbs(_, _)
InsertByAbs(e, s) ==
    IF s = <<>> THEN <<e>>
    ELSE IF AbsGreater(e.correlation, Head(s).correlation) THEN <<e>> \o s
    ELSE <<Head(s)>> \o InsertByAbs(e, Tail(s))

RECURSIVE SortedByAbs(_)
SortedByAbs(s) ==
    IF s = <<>> THEN <<>>
    ELSE InsertByAbs(s[Len(s)], SortedByAbs(SubSeq(s, 1, Len(s) - 1)))

\* the number of scatter plots, of correlations the template lists and the
\* context carries, of patterns the template / the context lists, and of
\* variables the template lists
ScatterLimit == 4
TemplateCorrLimit == 3
ContextCorrLimit == 3
ContextPatternLimit == 3
TemplatePatternLimit == 2
TemplateVariableLimit == 3

\* stats.get('correlations', {}).get('strong_correlations', [])
StrongCorrs(st) ==
    Get(Get(st, "correlations", EmptyDict), "strong_correlations", <<>>)

\* create_scatter_plots: top_corrs, the correlations plotted
CreateScatterPlots(st) == Take(SortedByAbs(StrongCorrs(st)), ScatterLimit)

\* the categorical columns create_categorical_plots plots
CategoricalPlotLimit == 3

\* the plots visualizer.main makes beside the scatter plots: the heatmap (2
\* numeric columns or more), the distributions (1 or more), one plot for
\* each of the first categorical columns, the dashboard
OtherPlots(frame, st) ==
    LET described == {st.descriptive_statistics[j].column :
                         j \in 1..Len(st.descriptive_statistics)}
        numeric_cols == SelectSeq(frame.columns, LAMBDA c : c \in described)
        categorical_cols == SelectDTypes(frame, "object")
    IN (IF Len(numeric_cols) < 2 THEN 0 ELSE 1)
       + (IF numeric_cols = <<>> THEN 0 ELSE 1)
       + Len(Take(categorical_cols, CategoricalPlotLimit))
       + 1

\* a Python value that is None or a string
None == [none |-> TRUE, text |-> ""]
Text(t) == [none |-> FALSE, text |-> t]

\* not value
Falsy(value) == value.none \/ value.text = ""

\* the request the text-generation service was not sent
NotSent ==
    [sent |-> FALSE, strong_correlations |-> <<>>, key_patterns |-> <<>>,
     visualizations |-> 0]

\* context, the findings put into the prompt
ClaudeContext(doc, st, catalog) ==
    [sent |-> TRUE,
     strong_correlations |-> Take(StrongCorrs(st), ContextCorrLimit),
     key_patterns |-> Take(Get(st, "patterns", <<>>), ContextPatternLimit),
     visualizations |-> Get(catalog, "visualizations_created", 0)]

\* how the call of the service can end: an exception (in the call or while
\* the response is read), a response with empty text, a response with text
ServiceOutcomes == {"exception", "empty", "content"}

\* generate_report_with_claude: the value returned and the request made
GenerateReportWithClaude(doc, st, catalog, api_key, outcome) ==
    IF ~api_key THEN [value |-> None, context |-> NotSent]
    ELSE [value |-> CASE outcome = "exception" -> None
                      [] outcome = "empty" -> Text("")
                      [] outcome = "content" -> Text("narrative"),
          context |-> ClaudeContext(doc, st, catalog)]

\* generate_template_report: the parts of the report drawn from the results
GenerateTemplateReport(doc, st, catalog) ==
    LET numeric_cols == doc.metadata.numeric_columns
        desc_stats == st.descriptive_statistics
        pats == Get(st, "patterns", <<>>)
        shown == Take(numeric_cols, TemplateVariableLimit)
    IN IF \E i \in 1..Len(shown) :
              \A j \in 1..Len(desc_stats) : desc_stats[j].column # shown[i]
       THEN Raised("KeyError")
       ELSE Returned(
              [kind |-> "template",
               variables |-> shown,
               correlations |-> Take(StrongCorrs(st), TemplateCorrLimit),
               patterns |-> Take(pats, TemplatePatternLimit),
               missing_data |-> \E j \in 1..Len(pats) : pats[j].type = "missing_data",
               visualizations |-> Get(catalog, "visualizations_created", 0)])

\* the report the service wrote
ServiceReport ==
    [kind |-> "service", variables |-> <<>>, correlations |-> <<>>,
     patterns |-> <<>>, missing_data |-> FALSE, visualizations |-> 0]

UsesTemplateOnNone(value) == value.none

\* main: "if not report_content", the template is generated
UsesTemplate(value) == Falsy(value)

RepIdle ==
    /\ rpc = "idle" /\ viz_catalog = EmptyDict /\ scatter = <<>>
    /\ service = [attempt |-> "none", context |-> NotSent]
    /\ report_content = Pending /\ report_file = NoFile

\* the visualization stage on the statistician's result: the scatter plots,
\* and the catalog it leaves (none when the stage failed)
VizScatter ==
    /\ spc = "done" /\ rpc = "idle"
    /\ scatter' = CreateScatterPlots(analysis_results)
    /\ \E made \in BOOLEAN :
          viz_catalog' = IF made
                         THEN [visualizations_created |->
                                  Len(scatter') + OtherPlots(df, analysis_results)]
                         ELSE EmptyDict
    /\ rpc' = "claude"
    /\ UNCHANGED <<service, report_content, report_file>>
    /\ UNCHANGED <<pipeVars, statVars, corrVars>>

\* report_writer.main: load_analysis_results and the attempt at the service
RepClaude ==
    /\ rpc = "claude"
    /\ \E has_anthropic \in BOOLEAN, api_key \in BOOLEAN,
          outcome \in ServiceOutcomes :
          LET got == IF has_anthropic
                     THEN GenerateReportWithClaude(processed, analysis_results,
                              viz_catalog, api_key, outcome)
                     ELSE [value |-> None, context |-> NotSent]
          IN /\ service' = [attempt |-> IF ~has_anthropic THEN "no_library"
                                        ELSE IF ~api_key THEN "no_key"
                                        ELSE outcome,
                            context |-> got.context]
             /\ report_content' =
                    IF UsesTemplate(got.value) THEN Pending
                    ELSE Returned(ServiceReport)
             /\ rpc' = IF UsesTemplate(got.value) THEN "template" ELSE "save"
    /\ UNCHANGED <<viz_catalog, scatter, report_file>>
    /\ UNCHANGED <<pipeVars, statVars, corrVars>>

\* report_writer.main: the fallback to the template
RepTemplate ==
    /\ rpc = "template"
    /\ report_content' =
           GenerateTemplateReport(processed, analysis_results, viz_catalog)
    /\ rpc' = IF report_content'.raised THEN "failed" ELSE "save"
    /\ UNCHANGED <<viz_catalog, scatter, service, report_file>>
    /\ UNCHANGED <<pipeVars, statVars, corrVars>>

\* report_writer.main: save_report
RepSave ==
    /\ rpc = "save"
    /\ report_file' = report_content.value
    /\ rpc' = "done"
    /\ UNCHANGED <<viz_catalog, scatter, service, report_content>>
    /\ UNCHANGED <<pipeVars, statVars, corrVars>>

ReportNext ==
    \/ StatLoad
    \/ StatDescribe
    \/ StatCorrelate
    \/ StatPatterns
    \/ StatSave
    \/ VizScatter
    \/ RepClaude
    \/ RepTemplate
    \/ RepSave

----------------------------------------------------------------------------
(* coordinator.py *)

Stages == <<"processing", "statistics", "visualization", "report">>

\* the file each stage writes into the run's output directory
OutputOf(stage) ==
    CASE stage = "processing" -> "processed_data"
      [] stage = "statistics" -> "statistical_analysis"
      [] stage = "visualization" -> "visualization_catalog"
      [] stage = "report" -> "executive_report"

StageIndex(stage) == CHOOSE i \in 1..Len(Stages) : Stages[i] = stage

\* statistician.main on the processed-data file: the exit codes and files
\* it can end with
StatisticianMain(doc) ==
    LET loaded == LoadProcessedData(doc)
        st == ComputeDescriptiveStats(loaded.df, loaded.metadata.numeric_columns)
        co == ComputeCorrelations(loaded.df, loaded.metadata.numeric_columns)
    IN IF st.raised \/ co.raised THEN {[rc |-> 1, out |-> NoFile]}
       ELSE {IF pa.raised THEN [rc |-> 1, out |-> NoFile]
             ELSE [rc |-> 0,
                   out |-> SaveStatisticalAnalysis(st.value, co.value, pa.value)] :
                pa \in IdentifyPatterns(loaded.df, loaded.metadata)}

\* what a stage's script can end with.  The visualizer and the report writer
\* are not modelled further: each exits 0 having written its file, or 1.
StageRuns(stage, files) ==
    CASE stage = "processing" -> {ProcessorMain(csv)}
      [] stage = "statistics" -> StatisticianMain(files["processed_data"])
      [] OTHER -> {[rc |-> 0, out |-> [written |-> stage]],
                   [rc |-> 1, out |-> NoFile]}

\* how subprocess.run can end: the script ran, or the interpreter was not
\* found (FileNotFoundError, run_command returns False), or another OSError
\* (not caught by run_command: main's caller exits 1)
Launches == {"ran", "not_found", "os_error"}

\* run_command's verdict, TRUE when the command exited 0
RunCommand(launch, rc) == launch = "ran" /\ rc = 0

\* where main goes after a stage
AfterStageNoHalt(stage, success) ==
    IF StageIndex(stage) < Len(Stages)
    THEN Stages[StageIndex(stage) + 1]
    ELSE "complete"

AfterStage(stage, success) ==
    IF ~success THEN "exited"
    ELSE IF StageIndex(stage) < Len(Stages)
    THEN Stages[StageIndex(stage) + 1]
    ELSE "complete"

PipeIdle ==
    /\ pc = "idle" /\ csv = EmptyFrame /\ started = <<>> /\ succeeded = <<>>
    /\ fs = <<>> /\ exit_code = 0 /\ completion = FALSE

PipeInit ==
    /\ pc = "start"
    /\ \E sh \in Shapes(MaxCells) :
          csv \in TablesOf(sh[1], sh[2]) \cup ScenarioInputs
    /\ started = <<>>
    /\ succeeded = <<>>
    /\ fs = [f \in {OutputOf(Stages[i]) : i \in 1..Len(Stages)} |-> NoFile]
    /\ exit_code = 0
    /\ completion = FALSE

\* check_prerequisites, create_sample_data, setup_output_directory
Setup ==
    /\ pc = "start"
    /\ \E ok \in BOOLEAN :
          /\ pc' = IF ok THEN Stages[1] ELSE "exited"
          /\ exit_code' = IF ok THEN exit_code ELSE 1
    /\ UNCHANGED <<csv, started, succeeded, fs, completion>>
    /\ UNCHANGED <<statVars, corrVars, repVars>>

\* one step of main: run_command on the stage's script, then the check of
\* its verdict
RunStage(stage) ==
    /\ pc = stage
    /\ started' = Append(started, stage)
    /\ \E launch \in Launches :
          \E run \in StageRuns(stage, fs) :
             LET success == RunCommand(launch, run.rc)
             IN /\ fs' = IF launch = "ran" /\ run.rc = 0
                         THEN [fs EXCEPT ![OutputOf(stage)] = run.out]
                         ELSE fs
                /\ succeeded' = IF success THEN Append(succeeded, stage)
                                ELSE succeeded
                /\ pc' = IF launch = "os_error" THEN "exited"
                         ELSE AfterStage(stage, success)
                /\ exit_code' = IF pc' = "exited" THEN 1 ELSE exit_code
    /\ UNCHANGED <<csv, completion>>
    /\ UNCHANGED <<statVars, corrVars, repVars>>

\* the completion message, return, sys.exit(0)
Complete ==
    /\ pc = "complete"
    /\ completion' = TRUE
    /\ pc' = "exited"
    /\ exit_code' = 0
    /\ UNCHANGED <<csv, started, succeeded, fs>>
    /\ UNCHANGED <<statVars, corrVars, repVars>>

RunProcessing == RunStage("processing")
RunStatistics == RunStage("statistics")
RunVisualization == RunStage("visualization")
RunReport == RunStage("report")

Next ==
    \/ Setup
    \/ RunProcessing
    \/ RunStatistics
    \/ RunVisualization
    \/ RunReport
    \/ Complete

Init == PipeInit /\ StatIdle /\ CorrIdle /\ RepIdle

Spec == Init /\ [][Next]_vars

InitStat == StatInit /\ PipeIdle /\ CorrIdle /\ RepIdle

SpecStat == InitStat /\ [][StatNext]_vars

SpecReport == InitStat /\ [][ReportNext]_vars

CorrNext == CorrApply

InitCorr == CorrInit /\ PipeIdle /\ StatIdle /\ RepIdle

SpecCorr == InitCorr /\ [][CorrNext]_vars

----------------------------------------------------------------------------
(* Properties of the coordinator *)

IsPrefix(s, t) == Len(s) <= Len(t) /\ s = SubSeq(t, 1, Len(s))

\* a started stage did not succeed
StageFailed == Len(succeeded) < Len(started)

\* C1: the stages are started in the order processing, statistics,
\* visualization, report; a stage is started only when every earlier stage
\* succeeded; once a stage has failed the coordinator has exited with a
\* non-zero code and no stage is started any more; exit code 0 and the
\* completion message come only after all four stages succeeded.
C1_StageOrder ==
    /\ [](/\ IsPrefix(started, Stages)
          /\ IsPrefix(succeeded, started)
          /\ Len(started) <= Len(succeeded) + 1
          /\ (StageFailed => pc = "exited" /\ exit_code # 0)
          /\ (pc = "exited" /\ exit_code = 0 => succeeded = Stages)
          /\ (completion => succeeded = Stages))
    /\ [][/\ (started' # started => succeeded = started)
          /\ (StageFailed => started' = started /\ pc' = "exited"
                             /\ exit_code' # 0)]_vars

\* the statistics stage failed after the processing stage had succeeded
C1_Witness ==
    /\ started = <<"processing", "statistics">>
    /\ succeeded = <<"processing">>
    /\ pc = "exited"
    /\ exit_code = 1

\* the number of columns of the input the loader detects as numeric
DetectedNumeric == Len(SelectDTypes(csv, "number"))

----------------------------------------------------------------------------
(* Properties of compute_correlations *)

\* |v| > 1/2, |v| = 1/2, |v| > 7/10, |v| = 7/10 for a coefficient c / sqrt(d)
MoreThanHalf(v) == ~v.nan /\ 4 * v.c * v.c > v.d
ExactlyHalf(v) == ~v.nan /\ 4 * v.c * v.c = v.d
MoreThanSevenTenths(v) == ~v.nan /\ 100 * v.c * v.c > 49 * v.d
ExactlySevenTenths(v) == ~v.nan /\ 100 * v.c * v.c = 49 * v.d

\* the list compute_correlations returned for the drawn matrix
CorrList == corr_out.value.strong_correlations

CorrListed == HasReturned(corr_out) /\ Len(corr_cols) >= 2

\* the entries of the list for the ordered pair (a, b)
EntriesFor(a, b) ==
    {i \in 1..Len(CorrList) :
        CorrList[i].variable1 = a /\ CorrList[i].variable2 = b}

\* C3: strong_correlations holds exactly the ordered pairs (a, b) of numeric
\* columns with a # b and |matrix[a][b]| > 0.5, each once, with the matrix's
\* value; no self-pair; so each qualifying unordered pair appears exactly
\* twice, as (a, b) and as (b, a), with the same correlation.
C3_StrongPairs ==
    CorrListed =>
        /\ \A a, b \in ColSet(corr_cols) :
              Cardinality(EntriesFor(a, b)) =
                  IF a # b /\ MoreThanHalf(corr_matrix[a][b]) THEN 1 ELSE 0
        /\ \A i \in 1..Len(CorrList) :
              /\ CorrList[i].variable1 \in ColSet(corr_cols)
              /\ CorrList[i].variable2 \in ColSet(corr_cols)
              /\ CorrList[i].variable1 # CorrList[i].variable2
              /\ CorrList[i].correlation =
                     corr_matrix[CorrList[i].variable1][CorrList[i].variable2]
        /\ \A i \in 1..Len(CorrList) :
              \E j \in 1..Len(CorrList) :
                 /\ j # i
                 /\ CorrList[j].variable1 = CorrList[i].variable2
                 /\ CorrList[j].variable2 = CorrList[i].variable1
                 /\ CorrList[j].correlation = CorrList[i].correlation
        /\ corr_out.value.matrix = corr_matrix

\* three columns, of which one pair is listed (twice) and the others are not
C3_Witness ==
    /\ CorrListed
    /\ Len(corr_cols) = 3
    /\ Len(CorrList) = 2
    /\ \E a, b \in ColSet(corr_cols) :
          a # b /\ ExactlyHalf(corr_matrix[a][b])

\* C4: every entry's strength is 'strong' iff |correlation| > 0.7 and
\* 'moderate' iff 0.5 < |correlation| <= 0.7; no other strength occurs; a
\* correlation of exactly 0.7 is 'moderate' and one of exactly 0.5 is not
\* listed.
C4_Strength ==
    CorrListed =>
        /\ \A i \in 1..Len(CorrList) :
              LET e == CorrList[i]
              IN /\ e.strength \in {"strong", "moderate"}
                 /\ (e.strength = "strong" <=> MoreThanSevenTenths(e.correlation))
                 /\ (e.strength = "moderate" <=>
                        MoreThanHalf(e.correlation)
                        /\ ~MoreThanSevenTenths(e.correlation))
                 /\ (ExactlySevenTenths(e.correlation) => e.strength = "moderate")
                 /\ ~ExactlyHalf(e.correlation)
        /\ \A a, b \in ColSet(corr_cols) :
              ExactlyHalf(corr_matrix[a][b]) => EntriesFor(a, b) = {}

\* a correlation of exactly 0.7 is listed as moderate beside one of exactly
\* 0.5 that is not listed
C4_Witness ==
    /\ CorrListed
    /\ \E i \in 1..Len(CorrList) :
          ExactlySevenTenths(CorrList[i].correlation)
          /\ CorrList[i].strength = "moderate"
    /\ \E i \in 1..Len(CorrList) : CorrList[i].strength = "strong"
    /\ \E a, b \in ColSet(corr_cols) :
          a # b /\ ExactlyHalf(corr_matrix[a][b])

\* compute_correlations has been called by statistician.main
CorrelationsCalled == ~correlations.pending

FewNumericColumns == Len(metadata.numeric_columns) < 2

\* C5 as stated: with fewer than 2 numeric columns compute_correlations does
\* not raise and returns a result whose matrix and strong_correlations are
\* both present and empty.
C5_Original ==
    CorrelationsCalled /\ FewNumericColumns =>
        /\ HasReturned(correlations)
        /\ {"matrix", "strong_correlations"} \subseteq DOMAIN correlations.value
        /\ correlations.value.matrix = <<>>
        /\ correlations.value.strong_correlations = <<>>

\* C5, amended: with fewer than 2 numeric columns compute_correlations does
\* not raise and returns the empty mapping: it holds neither a matrix nor a
\* strong_correlations key, and read with an empty default both are empty.
C5_EmptyResult ==
    CorrelationsCalled /\ FewNumericColumns =>
        /\ HasReturned(correlations)
        /\ DOMAIN correlations.value = {}
        /\ Get(correlations.value, "matrix", <<>>) = <<>>
        /\ Get(correlations.value, "strong_correlations", <<>>) = <<>>

\* a dataset with rows and exactly one numeric column has been correlated
C5_Witness ==
    /\ CorrelationsCalled
    /\ Len(metadata.numeric_columns) = 1
    /\ df.n > 0
    /\ Len(df.columns) > 1

----------------------------------------------------------------------------
(* Properties of identify_patterns and save_statistical_analysis *)

\* identify_patterns has returned its list
PatternsReturned == HasReturned(patterns)

PatternList == patterns.value

\* the patterns of a type, in list order
PatternsOfType(t) == SelectSeq(PatternList, LAMBDA q : q.type = t)

\* the numeric patterns reported for column c
NumericPatternsFor(c) ==
    SelectSeq(PatternList, LAMBDA q : q.type = "numeric_analysis" /\ q.column = c)

\* the categorical patterns reported for column c
CategoricalPatternsFor(c) ==
    SelectSeq(PatternList,
        LAMBDA q : q.type = "categorical_distribution" /\ q.column = c)

HasValue(cells) == \E i \in 1..Len(cells) : ~IsNull(cells[i])

\* the rows of a column whose value lies strictly outside [lower, upper]
\* (in eighths)
StrictlyOutside(cells, lower, upper) ==
    {i \in 1..Len(cells) :
        ~IsNull(cells[i]) /\ (8 * cells[i].n < lower \/ 8 * cells[i].n > upper)}

\* the rows of a column whose value equals a bound
AtBound(cells, lower, upper) ==
    {i \in 1..Len(cells) :
        ~IsNull(cells[i]) /\ (8 * cells[i].n = lower \/ 8 * cells[i].n = upper)}

\* C6: for every numeric column with a value, the bounds are
\* Q1 - 1.5 * (Q3 - Q1) and Q3 + 1.5 * (Q3 - Q1) with
\* lowerBound <= Q1 <= Q3 <= upperBound, and the rows counted as outliers are
\* exactly those strictly below the lower or strictly above the upper bound:
\* a value equal to a bound is not counted.
C6_IqrBounds ==
    PatternsReturned =>
        \A c \in ColSet(metadata.numeric_columns) :
            HasValue(df.col[c]) =>
                LET cells == df.col[c]
                    q1 == Quantile(cells, 1).v
                    q3 == Quantile(cells, 3).v
                    lower == LowerBound(Quantile(cells, 1), Quantile(cells, 3))
                    upper == UpperBound(Quantile(cells, 1), Quantile(cells, 3))
                IN /\ ~lower.nan /\ ~upper.nan
                   /\ 2 * lower.v = 2 * q1 - 3 * (q3 - q1)
                   /\ 2 * upper.v = 2 * q3 + 3 * (q3 - q1)
                   /\ lower.v <= q1 /\ q1 <= q3 /\ q3 <= upper.v
                   /\ Len(NumericPatternsFor(c)) = 1
                   /\ NumericPatternsFor(c)[1].outliers_count =
                          Cardinality(StrictlyOutside(cells, lower.v, upper.v))
                   /\ \A i \in 1..Len(cells) :
                          IsOutlier(cells[i], lower, upper) <=>
                              i \in StrictlyOutside(cells, lower.v, upper.v)
                   /\ \A i \in AtBound(cells, lower.v, upper.v) :
                          ~IsOutlier(cells[i], lower, upper)

\* a column with a value on a bound, which is not counted, and a wider IQR
C6_Witness ==
    /\ PatternsReturned
    /\ \E c \in ColSet(metadata.numeric_columns) :
          LET cells == df.col[c]
              lower == LowerBound(Quantile(cells, 1), Quantile(cells, 3))
              upper == UpperBound(Quantile(cells, 1), Quantile(cells, 3))
          IN /\ HasValue(cells)
             /\ lower.v < upper.v
             /\ AtBound(cells, lower.v, upper.v) # {}
             /\ NumericPatternsFor(c)[1].outliers_count = 0

\* a column with an outlier
C6_WitnessOutlier ==
    /\ PatternsReturned
    /\ \E c \in ColSet(metadata.numeric_columns) :
          NumericPatternsFor(c)[1].outliers_count > 0

Abs(x) == IF x < 0 THEN -x ELSE x

\* pct (in hundredths) is 100 * count / total rounded to 2 decimals: no
\* multiple of 0.01 is nearer
IsRoundedPercentage(pct, count, total) ==
    2 * Abs(pct * total - 10000 * count) <= total

\* C7: each numeric pattern reports outliers_count, the number of rows whose
\* value is an IQR outlier, and outliers_percentage, 100 * outliers_count /
\* (the number of rows of the dataset) rounded to 2 decimals; the column
\* [1,2,3,4,1000] has Q1 = 2, Q3 = 4, upper bound 7, 1 outlier, 20 percent.
C7_OutlierCounts ==
    PatternsReturned =>
        /\ \A c \in ColSet(metadata.numeric_columns) :
              LET cells == df.col[c]
                  q1 == Quantile(cells, 1)
                  q3 == Quantile(cells, 3)
                  outside == IF q1.nan THEN {}
                             ELSE StrictlyOutside(cells,
                                      (2 * q1.v - 3 * (q3.v - q1.v)) \div 2,
                                      (2 * q3.v + 3 * (q3.v - q1.v)) \div 2)
              IN /\ Len(NumericPatternsFor(c)) = 1
                 /\ NumericPatternsFor(c)[1].outliers_count = Cardinality(outside)
                 /\ IsRoundedPercentage(NumericPatternsFor(c)[1].outliers_percentage,
                                        Cardinality(outside), df.n)
        /\ (df = ScenarioOutlier =>
               /\ Quantile(df.col["value"], 1) = Fl(8 * 2)
               /\ Quantile(df.col["value"], 3) = Fl(8 * 4)
               /\ UpperBound(Quantile(df.col["value"], 1),
                             Quantile(df.col["value"], 3)) = Fl(8 * 7)
               /\ NumericPatternsFor("value")[1].outliers_count = 1
               /\ NumericPatternsFor("value")[1].outliers_percentage = 100 * 20)

\* the patterns of the column [1,2,3,4,1000]
C7_Witness == PatternsReturned /\ df = ScenarioOutlier

\* the columns of the dataset holding a null, in the dataset's column order
ColumnsWithNull == SelectSeq(df.columns, LAMBDA c : ~(\A i \in 1..df.n : ~IsNull(df.col[c][i])))

NullCount(c) == Cardinality({i \in 1..df.n : IsNull(df.col[c][i])})

\* C8: the list holds a missing-data pattern iff a column of the dataset has
\* a null, and at most one; its columns_with_missing lists exactly the
\* columns holding a null, each with its null count, in the dataset's column
\* order.
C8_MissingData ==
    PatternsReturned =>
        LET missing == PatternsOfType("missing_data")
        IN /\ Len(missing) <= 1
           /\ (Len(missing) = 1 <=> ColumnsWithNull # <<>>)
           /\ (Len(missing) = 1 =>
                  LET listed == missing[1].columns_with_missing
                  IN /\ [i \in 1..Len(listed) |-> listed[i].column] = ColumnsWithNull
                     /\ \A i \in 1..Len(listed) :
                           listed[i].missing_count = NullCount(listed[i].column))

\* a numeric and a categorical column hold nulls, the first listed fewer
\* than the second
C8_Witness ==
    /\ PatternsReturned
    /\ Len(PatternsOfType("missing_data")) = 1
    /\ LET listed == PatternsOfType("missing_data")[1].columns_with_missing
       IN /\ Len(listed) = 2
          /\ listed[1].missing_count < listed[2].missing_count
          /\ listed[1].column \in ColSet(metadata.numeric_columns)
          /\ listed[2].column \in ColSet(metadata.categorical_columns)

\* C9: in the saved analysis result variables_analyzed is the number of
\* entries of descriptive_statistics, strong_correlations_found the length
\* of correlations.strong_correlations (0 for the empty result) and
\* patterns_identified the length of patterns; the stats, correlations and
\* patterns passed in are stored unchanged.
C9_Summary ==
    spc = "done" =>
        /\ analysis_results.descriptive_statistics = stats.value
        /\ analysis_results.correlations = correlations.value
        /\ analysis_results.patterns = patterns.value
        /\ analysis_results.summary.variables_analyzed = Len(stats.value)
        /\ analysis_results.summary.patterns_identified = Len(patterns.value)
        /\ analysis_results.summary.strong_correlations_found =
               IF DOMAIN correlations.value = {} THEN 0
               ELSE Len(correlations.value.strong_correlations)

\* a saved result with strong correlations, and more patterns than variables
C9_Witness ==
    /\ spc = "done"
    /\ analysis_results.summary.strong_correlations_found = 2
    /\ analysis_results.summary.variables_analyzed = 2
    /\ analysis_results.summary.patterns_identified = 4

\* the values of a column of maximal frequency
MostFrequent(cells) ==
    {v \in DistinctValues(cells) :
        \A w \in DistinctValues(cells) : CountOf(cells, w) <= CountOf(cells, v)}

\* the row where the value first occurs
FirstSeen(cells, value) ==
    CHOOSE i \in 1..Len(cells) :
        /\ ~IsNull(cells[i]) /\ cells[i].s = value
        /\ \A j \in 1..(i - 1) : IsNull(cells[j]) \/ cells[j].s # value

\* what C10 says of a categorical pattern q of a column, but for the choice
\* among equally frequent values
CategoricalPatternRight(q, cells) ==
    /\ q.unique_values = Cardinality(DistinctValues(cells))
    /\ q.most_common \in MostFrequent(cells)
    /\ q.most_common_count = CountOf(cells, q.most_common)
    /\ Len(q.distribution) <= 5
    /\ Len(q.distribution) =
           IF q.unique_values < 5 THEN q.unique_values ELSE 5
    /\ \A i \in 1..Len(q.distribution) :
          /\ q.distribution[i].value \in DistinctValues(cells)
          /\ q.distribution[i].count = CountOf(cells, q.distribution[i].value)
          /\ \A j \in 1..Len(q.distribution) :
                i # j => q.distribution[i].value # q.distribution[j].value
          /\ \A w \in DistinctValues(cells) :
                (\A j \in 1..Len(q.distribution) : q.distribution[j].value # w)
                    => CountOf(cells, w) <= q.distribution[i].count

RegionRight ==
    df = ScenarioRegion =>
        /\ CategoricalPatternsFor("region")[1].most_common = "A"
        /\ CategoricalPatternsFor("region")[1].most_common_count = 3
        /\ CategoricalPatternsFor("region")[1].unique_values = 2

C10_WitnessTable ==
    /\ PatternsReturned
    /\ df = ScenarioCategories
    /\ Len(CategoricalPatternsFor("category")[1].distribution) = 5

----------------------------------------------------------------------------
(* Properties of the report stage *)

\* the attempts at the service that give no narrative
ServiceFailures == {"no_library", "no_key", "exception", "empty"}

\* C11: whenever the text-generation service is unavailable or fails (no
\* client library, no API key, an exception, an empty text), the template
\* report is generated and saved and the stage does not fail; the template is
\* skipped only when the service returned a non-empty text.
C11_Fallback ==
    /\ rpc # "failed"
    /\ rpc \in {"claude", "template", "save"} => ENABLED ReportNext
    /\ rpc = "template" <=> (service.attempt \in ServiceFailures
                                /\ report_content = Pending)
    /\ rpc \in {"save", "done"} =>
          /\ HasReturned(report_content)
          /\ service.attempt \in ServiceFailures =>
                report_content.value.kind = "template"
          /\ report_content.value.kind # "template" =>
                service.attempt = "content"
    /\ rpc = "done" => report_file = report_content.value

\* the template report saved after the service answered with an empty text
C11_Witness ==
    /\ rpc = "done"
    /\ service.attempt = "empty"
    /\ report_file.kind = "template"

\* the template report saved after an exception, with correlations listed
C11_WitnessException ==
    /\ rpc = "done"
    /\ service.attempt = "exception"
    /\ report_file.kind = "template"
    /\ report_file.correlations # <<>>

----------------------------------------------------------------------------
(* Properties of the statistician's error handling *)

\* statistician.main has ended, with a result or by exit 1
StatEnded == spc \in {"done", "failed"}

\* the saved result holds a pattern of type t for column c
ResultHasPattern(t, c) ==
    /\ analysis_results # NoFile
    /\ \E j \in 1..Len(analysis_results.patterns) :
          /\ analysis_results.patterns[j].type = t
          /\ analysis_results.patterns[j].column = c

\* the saved result holds the statistics of column c
ResultHasStats(c) ==
    /\ analysis_results # NoFile
    /\ \E j \in 1..Len(analysis_results.descriptive_statistics) :
          analysis_results.descriptive_statistics[j].column = c

\* C12 as stated: an error raised while computing the statistics or the
\* pattern of one column does not abort the computation for the other
\* columns: when statistician.main ends, the statistics and the pattern of
\* every column whose own computation raises nothing are in the analysis
\* result.
C12_ErrorIsolation ==
    StatEnded =>
        /\ \A c \in ColSet(metadata.categorical_columns) :
              CategoricalError(df, c) = "" =>
                  ResultHasPattern("categorical_distribution", c)
        /\ \A c \in ColSet(metadata.numeric_columns) :
              NumericError(df, c) = "" =>
                  /\ ResultHasPattern("numeric_analysis", c)
                  /\ ResultHasStats(c)

----------------------------------------------------------------------------
(* Properties of a failed run's output directory *)

\* the run ended in a fatal error at a stage
RunFailed == pc = "exited" /\ exit_code # 0 /\ StageFailed

\* C13 as stated: after a run that ended in a fatal error at a stage, the
\* partial results are discarded: no file written by a stage that succeeded
\* before the failure is left in the run's output directory.
C13_PartialDiscarded ==
    RunFailed =>
        \A i \in 1..Len(succeeded) : fs[OutputOf(succeeded[i])] = NoFile

----------------------------------------------------------------------------
(* Properties of the processor *)

\* the processing stage has written the processed-data document
ProcessedWritten == fs # <<>> /\ fs["processed_data"] # NoFile

\* row i of the input table, as a mapping column -> cell
InputRow(i) == [c \in ColSet(csv.columns) |-> csv.col[c][i]]

\* the rows of the input table holding a value, in their order
RowsWithValue ==
    SelectSeq([i \in 1..csv.n |-> InputRow(i)],
              LAMBDA row : \E c \in ColSet(csv.columns) : ~IsNull(row[c]))

\* a row of the input table holds an IQR outlier of a numeric column
HasOutlierRow ==
    \E c \in ColSet(SelectDTypes(csv, "number")) : \E i \in 1..csv.n :
        IsOutlier(csv.col[c][i],
                  LowerBound(Quantile(csv.col[c], 1), Quantile(csv.col[c], 3)),
                  UpperBound(Quantile(csv.col[c], 1), Quantile(csv.col[c], 3)))

\* C14: the rows clean_data returns, which the processing stage writes, are
\* exactly the input rows holding at least one value, in their order and
\* with their values: rows without any value are removed, no row is removed
\* for holding an outlier.
C14_CleanData ==
    ProcessedWritten =>
        /\ fs["processed_data"].data.rows = RowsWithValue
        /\ fs["processed_data"].metadata.rows = Len(RowsWithValue)
        /\ CleanData(csv).n = Len(RowsWithValue)
        /\ \A c \in ColSet(csv.columns) :
              CleanData(csv).col[c] =
                  [j \in 1..Len(RowsWithValue) |-> RowsWithValue[j][c]]

\* a table with a row without value, a row with a null and a value, and an
\* outlier has been cleaned and written
C14_Witness ==
    /\ ProcessedWritten
    /\ HasOutlierRow
    /\ 0 < Len(RowsWithValue) /\ Len(RowsWithValue) < csv.n
    /\ \E j \in 1..Len(RowsWithValue) :
          \E c \in ColSet(csv.columns) : IsNull(RowsWithValue[j][c])

----------------------------------------------------------------------------
(* Properties of the correlation matrix computed from the data *)

\* compute_correlations returned a matrix
MatrixReturned ==
    HasReturned(correlations) /\ Len(metadata.numeric_columns) >= 2

Matrix == correlations.value.matrix

\* a == b on floats: false when either is not-a-number
FloatEq(a, b) ==
    /\ ~a.nan /\ ~b.nan
    /\ a.c * a.c * b.d = b.c * b.c * a.d
    /\ (a.c > 0 <=> b.c > 0) /\ (a.c < 0 <=> b.c < 0)

\* v == 1.0
IsOne(v) == ~v.nan /\ v.c > 0 /\ v.c * v.c = v.d

\* the matrix holds a value (a number or not-a-number) for every ordered pair
DefinedForAllPairs ==
    /\ DOMAIN Matrix = ColSet(metadata.numeric_columns)
    /\ \A a \in DOMAIN Matrix : DOMAIN Matrix[a] = ColSet(metadata.numeric_columns)

\* the non-null values of column c of the dataset
ValuesOf(c) == {df.col[c][i].n : i \in {j \in 1..df.n : ~IsNull(df.col[c][j])}}

NonNullCount(c) == Cardinality({i \in 1..df.n : ~IsNull(df.col[c][i])})

\* C15 as stated: the matrix is defined for every ordered pair of numeric
\* columns, matrix[a][b] == matrix[b][a] for all pairs, and the diagonal
\* entry is 1.0 for every column with at least 2 non-null values.
C15_Original ==
    MatrixReturned =>
        /\ DefinedForAllPairs
        /\ \A a, b \in DOMAIN Matrix : FloatEq(Matrix[a][b], Matrix[b][a])
        /\ \A a \in DOMAIN Matrix : NonNullCount(a) >= 2 => IsOne(Matrix[a][a])

\* C15, amended: the matrix is defined for every ordered pair of numeric
\* columns; matrix[a][b] and matrix[b][a] are the same number or both
\* not-a-number; the diagonal entry is 1.0 for every column holding at least
\* 2 distinct non-null values and not-a-number for every other column (fewer
\* than 2 non-null values, or all of them equal).
C15_Matrix ==
    MatrixReturned =>
        /\ DefinedForAllPairs
        /\ \A a, b \in DOMAIN Matrix :
              \/ Matrix[a][b].nan /\ Matrix[b][a].nan
              \/ FloatEq(Matrix[a][b], Matrix[b][a])
        /\ \A a \in DOMAIN Matrix :
              IF Cardinality(ValuesOf(a)) >= 2 THEN IsOne(Matrix[a][a])
              ELSE Matrix[a][a].nan

\* a matrix with a column of 2 or more equal values, whose diagonal entry is
\* not-a-number, a column with diagonal 1.0 and a negative entry
C15_Witness ==
    /\ MatrixReturned
    /\ \E a \in DOMAIN Matrix :
          NonNullCount(a) >= 2 /\ Cardinality(ValuesOf(a)) = 1 /\ Matrix[a][a].nan
    /\ \E a, b \in DOMAIN Matrix :
          a # b /\ IsOne(Matrix[a][a]) /\ ~Matrix[a][b].nan /\ Matrix[a][b].c < 0

----------------------------------------------------------------------------
(* Properties of identify_patterns on degenerate columns *)

\* identify_patterns has been called
PatternsCalled == ~patterns.pending

\* the rows of a numeric column holding a value different from v (in eighths)
DifferingFrom(cells, v) ==
    {i \in 1..Len(cells) : ~IsNull(cells[i]) /\ 8 * cells[i].n # v}

\* C16 as stated: identify_patterns never fails on empty or degenerate
\* columns: for every dataset and metadata (a zero-variance or all-null
\* numeric column, an all-null categorical column, zero rows) it returns a
\* pattern list without raising; for a numeric column with Q1 = Q3 both
\* bounds equal that value and every value different from it is counted as
\* an outlier.
C16_NeverFails ==
    PatternsCalled =>
        /\ ~patterns.raised
        /\ \A c \in ColSet(metadata.numeric_columns) :
              LET q1 == Quantile(df.col[c], 1)
                  q3 == Quantile(df.col[c], 3)
              IN (~q1.nan /\ q1 = q3) =>
                    /\ LowerBound(q1, q3) = q1
                    /\ UpperBound(q1, q3) = q1
                    /\ NumericPatternsFor(c)[1].outliers_count =
                           Cardinality(DifferingFrom(df.col[c], q1.v))

\* identify_patterns is called with a categorical column holding no value
\* beside a column with values
C16_AllNullCategorical ==
    /\ spc = "patterns"
    /\ df.n > 0
    /\ \E c \in ColSet(metadata.categorical_columns) :
          \A i \in 1..df.n : IsNull(df.col[c][i])
    /\ \E c \in ColSet(metadata.numeric_columns) :
          \E i \in 1..df.n : ~IsNull(df.col[c][i])

----------------------------------------------------------------------------
(* Properties of the order of the analysis result *)

\* the analysis result has been saved
ResultSaved == spc = "done"

\* the per-column patterns of the result (all but the missing-data pattern),
\* in list order
ColumnPatterns ==
    SelectSeq(analysis_results.patterns, LAMBDA q : q.type # "missing_data")

\* the columns of the per-column patterns of type t, in list order
PatternColumns(t) ==
    LET of == SelectSeq(ColumnPatterns, LAMBDA q : q.type = t)
    IN [j \in 1..Len(of) |-> of[j].column]

\* the position of column c in the dataset's declaration order
Declared(c) == CHOOSE i \in 1..Len(df.columns) : df.columns[i] = c

\* the descriptive_statistics entries are in numeric_columns order
StatsInNumericOrder ==
    [j \in 1..Len(analysis_results.descriptive_statistics) |->
        analysis_results.descriptive_statistics[j].column]
    = metadata.numeric_columns

\* C17 as stated: the per-column patterns are in the dataset's
\* column-declaration order, whatever the columns' types, and the
\* descriptive_statistics entries in numeric_columns order.
C17_Original ==
    ResultSaved =>
        /\ \A i, j \in 1..Len(ColumnPatterns) :
              i < j => Declared(ColumnPatterns[i].column)
                           < Declared(ColumnPatterns[j].column)
        /\ StatsInNumericOrder

\* C17, amended: the per-column patterns are in insertion order: the
\* categorical patterns, in categorical_columns order, come first, then the
\* numeric patterns, in numeric_columns order; the descriptive_statistics
\* entries are in numeric_columns order.
C17_Order ==
    ResultSaved =>
        /\ \A i, j \in 1..Len(ColumnPatterns) :
              (ColumnPatterns[i].type = "numeric_analysis"
                  /\ ColumnPatterns[j].type = "categorical_distribution") => j < i
        /\ PatternColumns("categorical_distribution") = metadata.categorical_columns
        /\ PatternColumns("numeric_analysis") = metadata.numeric_columns
        /\ StatsInNumericOrder

\* a result for a dataset declaring a numeric column before a categorical
\* one, with two numeric columns
C17_Witness ==
    /\ ResultSaved
    /\ Len(metadata.numeric_columns) = 2
    /\ \E a \in ColSet(metadata.numeric_columns),
          b \in ColSet(metadata.categorical_columns) : Declared(a) < Declared(b)

----------------------------------------------------------------------------
(* Properties of the column classification *)

ProcessedMetadata == fs["processed_data"].metadata

\* a non-null value of column c of the input is a number
HasNumber(c) == \E i \in 1..csv.n : csv.col[c][i].k = "num"

\* a non-null value of column c of the input is a non-numeric string
HasText(c) == \E i \in 1..csv.n : csv.col[c][i].k = "str"

\* C18 as stated: in the metadata the processing stage writes, every column
\* is listed in exactly one of numeric_columns and categorical_columns, and
\* it is listed in numeric_columns iff at least one of its non-null values
\* is a number and none is a non-numeric string (an all-null column is
\* categorical).
C18_Classification ==
    ProcessedWritten =>
        \A c \in ColSet(csv.columns) :
            /\ c \in ColSet(ProcessedMetadata.numeric_columns)
                   <=> c \notin ColSet(ProcessedMetadata.categorical_columns)
            /\ c \in ColSet(ProcessedMetadata.numeric_columns)
                   <=> (HasNumber(c) /\ ~HasText(c))

\* the metadata of a table with a True / False column has been written
C18_BooleanColumn ==
    /\ ProcessedWritten
    /\ csv = ScenarioFlags
    /\ "flag" \notin ColSet(ProcessedMetadata.numeric_columns)
    /\ "flag" \notin ColSet(ProcessedMetadata.categorical_columns)

\* the metadata of a table with a column holding no value has been written,
\* the column listed as numeric
C18_AllNullColumn ==
    /\ ProcessedWritten
    /\ \E c \in ColSet(ProcessedMetadata.numeric_columns) :
          \A i \in 1..csv.n : IsNull(csv.col[c][i])

----------------------------------------------------------------------------
(* Properties of the descriptive statistics *)

StatsReturned == ~stats.pending /\ ~stats.raised

\* the values of column c of the frame that are not null
ValueSet(c) == {df.col[c][i].n : i \in {j \in 1..df.n : ~IsNull(df.col[c][j])}}

\* a <= b on floats that are both numbers
FLeq(a, b) == ~a.nan /\ ~b.nan /\ a.v <= b.v

\* the entry's aggregates are taken over the non-null values only
OverNonNull(e) ==
    /\ FLeq(e.min, e.q25) /\ FLeq(e.q25, e.median)
    /\ FLeq(e.median, e.q75) /\ FLeq(e.q75, e.max)
    /\ \E lo \in ValueSet(e.column) :
          /\ e.min = Fl(8 * lo)
          /\ \A v \in ValueSet(e.column) : lo <= v
    /\ \E hi \in ValueSet(e.column) :
          /\ e.max = Fl(8 * hi)
          /\ \A v \in ValueSet(e.column) : v <= hi
    /\ ~e.mean.nan
    /\ e.mean.den = e.count
    /\ e.mean.num = SeqSum(NonNull(df.col[e.column]))

AllNaN(e) ==
    /\ e.mean.nan /\ e.std.nan
    /\ e.median.nan /\ e.min.nan /\ e.max.nan /\ e.q25.nan /\ e.q75.nan

\* C19: every entry compute_descriptive_stats returns has count = the number
\* of non-null values of its column; with count >= 1 it satisfies
\* min <= q25 <= median <= q75 <= max, every aggregate taken over the
\* non-null values; a column whose values are all null does not make the
\* function raise and has count = 0 and every other field not-a-number.
C19_DescriptiveStats ==
    /\ StatsReturned =>
          \A i \in 1..Len(stats.value) :
             LET e == stats.value[i]
             IN /\ e.column = metadata.numeric_columns[i]
                /\ e.count = NonNullCount(e.column)
                /\ e.count >= 1 => OverNonNull(e)
                /\ e.count = 0 => AllNaN(e)
    /\ (spc \notin {"idle", "load", "stats"} /\ stats.raised) =>
          ~HasColumns(df, metadata.numeric_columns)

\* statistics computed for a column with a null and distinct quartiles and
\* for a column whose values are all null
C19_Witness ==
    /\ StatsReturned
    /\ \E i \in 1..Len(stats.value) :
          LET e == stats.value[i]
          IN /\ e.count >= 2 /\ e.count < df.n
             /\ FLt(e.min, e.q25) /\ FLt(e.q25, e.median)
             /\ FLt(e.median, e.q75) /\ FLt(e.q75, e.max)
    /\ \E i \in 1..Len(stats.value) :
          /\ stats.value[i].count = 0
          /\ AllNaN(stats.value[i])

----------------------------------------------------------------------------
(* Properties of the consumers of strong_correlations *)

\* the entries shown, taken from the list all, include no entry while
\* omitting another whose |correlation| is strictly larger
TopByAbs(shown, all) ==
    \A i \in 1..Len(shown), j \in 1..Len(all) :
        (\A k \in 1..Len(shown) : shown[k] # all[j])
            => ~AbsGreater(all[j].correlation, shown[i].correlation)

ScatterTop ==
    rpc # "idle" => TopByAbs(scatter, StrongCorrs(analysis_results))

ContextTop ==
    service.context.sent =>
        TopByAbs(service.context.strong_correlations,
                 StrongCorrs(analysis_results))

TemplateWritten == rpc = "done" /\ report_file.kind = "template"

TemplateTop ==
    TemplateWritten =>
        TopByAbs(report_file.correlations, StrongCorrs(analysis_results))

\* C20 as stated: the scatter plots (4), the template report's Correlation
\* Analysis section (3) and the context sent to the text-generation service
\* (3) never include an entry of strong_correlations while omitting another
\* entry whose |correlation| is strictly larger.
C20_TopN == ScatterTop /\ ContextTop /\ TemplateTop

\* a template report is written that shows an entry and omits a stronger
\* one, the scatter plots made from the same list being the strongest
C20_TemplateFirstThree ==
    /\ TemplateWritten
    /\ Len(StrongCorrs(analysis_results)) > TemplateCorrLimit
    /\ ~TopByAbs(report_file.correlations, StrongCorrs(analysis_results))
    /\ TopByAbs(scatter, StrongCorrs(analysis_results))
    /\ Len(scatter) = ScatterLimit

----------------------------------------------------------------------------
(* Properties of the composition of the pattern list *)

DisjointLists ==
    ColSet(metadata.numeric_columns) \cap ColSet(metadata.categorical_columns) = {}

\* 1 if a column of the dataset holds a null, else 0
MissingPatternCount == IF ColumnsWithNull = <<>> THEN 0 ELSE 1

ExpectedPatternCount ==
    Len(metadata.categorical_columns) + Len(metadata.numeric_columns)
        + MissingPatternCount

\* C21: for disjoint numeric_columns and categorical_columns the list
\* identify_patterns returns is one categorical-distribution pattern per
\* categorical column, then one numeric pattern per numeric column, then the
\* missing-data pattern when a column has a null (always last); the saved
\* patterns_identified is |categorical_columns| + |numeric_columns| + (1 if
\* any column has a null, else 0).
C21_Composition ==
    LET nc == Len(metadata.categorical_columns)
        nn == Len(metadata.numeric_columns)
    IN /\ (PatternsReturned /\ DisjointLists) =>
             /\ Len(PatternList) = ExpectedPatternCount
             /\ \A i \in 1..Len(PatternList) :
                   IF i <= nc
                   THEN /\ PatternList[i].type = "categorical_distribution"
                        /\ PatternList[i].column = metadata.categorical_columns[i]
                   ELSE IF i <= nc + nn
                   THEN /\ PatternList[i].type = "numeric_analysis"
                        /\ PatternList[i].column = metadata.numeric_columns[i - nc]
                   ELSE PatternList[i].type = "missing_data"
       /\ (ResultSaved /\ DisjointLists) =>
             analysis_results.summary.patterns_identified = ExpectedPatternCount

\* a saved result with categorical, numeric and missing-data patterns
C21_Witness ==
    /\ ResultSaved
    /\ DisjointLists
    /\ Len(metadata.categorical_columns) >= 1
    /\ Len(metadata.numeric_columns) >= 2
    /\ MissingPatternCount = 1
    /\ analysis_results.summary.patterns_identified = 4

\* a saved result with per-column patterns and no missing-data pattern
C21_WitnessNoNull ==
    /\ ResultSaved
    /\ DisjointLists
    /\ MissingPatternCount = 0
    /\ analysis_results.summary.patterns_identified = 3

====
